---- MODULE Spec2Model ----
(***************************************************************************)
(* Model of bayesian-methods-ml-decision-theory.ipynb: the asymmetric      *)
(* stock loss, its vectorised form, the burn-in / posterior-predictive     *)
(* pipeline and the per-signal expected-loss minimisation loop.            *)
(*                                                                         *)
(* Numbers.  Returns, signals, noise and predictions are fixed-point: the  *)
(* integer v stands for the real v / SCALE.  alpha and the slope b are     *)
(* dimensionless integers.  A loss is kept exactly, in units of            *)
(* 1 / SCALE^2: the real  alpha*p^2 - sign(R)*p + |R|  is the integer      *)
(* alpha*P*P - SCALE*sign(T)*P + SCALE*|T|.  An arithmetic mean is kept as *)
(* the exact fraction num/den; the mean of an empty array is NaN.          *)
(***************************************************************************)
EXTENDS Integers, Sequences, FiniteSets

\* ------------------------------------------------------------------ bounds
\* fixed-point resolution: SCALE units per 1.0
SCALE == 100
\* longest array of true returns handed to the loss functions
MaxLen == 2
\* candidate predictions are -MaxPred .. MaxPred
MaxPred == 6
\* number of MCMC draws (100000 in the notebook)
NumDraws == 3
\* burn-in prefix (20000 in the notebook)
BurnIn == 1
\* number of grid signals (50 in the notebook)
NumSignals == 3

\* the real 0.05 in fixed point
Pt05 == (5 * SCALE) \div 100

TrueValues == {-Pt05, -1, 0, 1, Pt05}
Predictions == (-MaxPred) .. MaxPred
Alphas == {-100, 0, 1, 100, 500}

RECURSIVE SeqsUpTo(_, _)
SeqsUpTo(S, n) ==
    IF n = 0 THEN {<<>>}
    ELSE LET shorter == SeqsUpTo(S, n - 1)
         IN  shorter \cup {Append(s, x) : s \in {t \in shorter : Len(t) = n - 1}, x \in S}

SeqsOfLen(S, n) == {s \in SeqsUpTo(S, n) : Len(s) = n}

\* ------------------------------------------------------------ numpy helpers
sign(x) == IF x > 0 THEN 1 ELSE IF x < 0 THEN -1 ELSE 0

abs(x) == IF x < 0 THEN -x ELSE x

zeros_like(arr) == [k \in 1 .. Len(arr) |-> 0]

RECURSIVE SeqSum(_)
SeqSum(arr) == IF Len(arr) = 0 THEN 0 ELSE arr[1] + SeqSum(Tail(arr))

NaN == [nan |-> TRUE, num |-> 0, den |-> 1]

\* ndarray.mean(): sum / size; the mean of an empty array is nan (a warning, no error)
mean(arr) ==
    IF Len(arr) = 0 THEN NaN
    ELSE [nan |-> FALSE, num |-> SeqSum(arr), den |-> Len(arr)]

\* x < y on floats: every comparison with nan is False
Less(x, y) == ~x.nan /\ ~y.nan /\ x.num * y.den < y.num * x.den

\* np.linspace(start, stop, num); the inputs drawn make the division exact
linspace(start, stop, num) ==
    [k \in 1 .. num |-> start + ((k - 1) * (stop - start)) \div (num - 1)]

\* seq[n:]  (a slice start beyond the end gives the empty sequence)
SliceFrom(seq, n) ==
    IF n >= Len(seq) THEN <<>> ELSE SubSeq(seq, n + 1, Len(seq))

\* --------------------------------------------------------------- stock_loss
stock_loss_alpha_default == 100

\* faulty variant: the linear term of the quadratic branch with the opposite sign
stock_loss_sign_slip(true_return, prediction, alpha) ==
    IF true_return * prediction < 0
    THEN alpha * prediction * prediction + SCALE * sign(true_return) * prediction
             + SCALE * abs(true_return)
    ELSE SCALE * abs(true_return - prediction)

\* faulty variant: non-strict sign test
stock_loss_non_strict(true_return, prediction, alpha) ==
    IF true_return * prediction <= 0
    THEN alpha * prediction * prediction - SCALE * sign(true_return) * prediction
             + SCALE * abs(true_return)
    ELSE SCALE * abs(true_return - prediction)

stock_loss(true_return, prediction, alpha) ==
    IF true_return * prediction < 0
    THEN alpha * prediction * prediction - SCALE * sign(true_return) * prediction
             + SCALE * abs(true_return)
    ELSE SCALE * abs(true_return - prediction)

\* stock_loss(true_return, prediction): alpha omitted
stock_loss_omitted_alpha(true_return, prediction) ==
    stock_loss(true_return, prediction, stock_loss_alpha_default)

\* ---------------------------------------------------- vectorised_stock_loss
\* faulty variant: the vectorised default copied from stock_loss
vectorised_alpha_copied == stock_loss_alpha_default

vectorised_stock_loss_alpha_default == 500

\* faulty variant: the mask taken with a non-strict test
vectorised_stock_loss_non_strict(true_return, prediction, alpha) ==
    LET loss == zeros_like(true_return)
        ix == [k \in 1 .. Len(true_return) |-> true_return[k] * prediction <= 0]
        loss1 == [k \in 1 .. Len(loss) |->
                    IF ix[k]
                    THEN alpha * prediction * prediction
                           - SCALE * sign(true_return[k]) * prediction
                           + SCALE * abs(true_return[k])
                    ELSE loss[k]]
    IN  [k \in 1 .. Len(loss) |->
            IF ~ix[k] THEN SCALE * abs(true_return[k] - prediction) ELSE loss1[k]]

\* faulty variant: the square of the prediction dropped (alpha*prediction)
vectorised_stock_loss_no_square(true_return, prediction, alpha) ==
    LET loss == zeros_like(true_return)
        ix == [k \in 1 .. Len(true_return) |-> true_return[k] * prediction < 0]
        loss1 == [k \in 1 .. Len(loss) |->
                    IF ix[k]
                    THEN alpha * prediction * SCALE
                           - SCALE * sign(true_return[k]) * prediction
                           + SCALE * abs(true_return[k])
                    ELSE loss[k]]
    IN  [k \in 1 .. Len(loss) |->
            IF ~ix[k] THEN SCALE * abs(true_return[k] - prediction) ELSE loss1[k]]

vectorised_stock_loss(true_return, prediction, alpha) ==
    LET loss == zeros_like(true_return)
        ix == [k \in 1 .. Len(true_return) |-> true_return[k] * prediction < 0]
        \* loss[ix] = alpha*prediction**2 - np.sign(true_return[ix])*prediction + np.abs(true_return[ix])
        loss1 == [k \in 1 .. Len(loss) |->
                    IF ix[k]
                    THEN alpha * prediction * prediction
                           - SCALE * sign(true_return[k]) * prediction
                           + SCALE * abs(true_return[k])
                    ELSE loss[k]]
    \* loss[~ix] = np.abs(true_return[~ix] - prediction)
    IN  [k \in 1 .. Len(loss) |->
            IF ~ix[k] THEN SCALE * abs(true_return[k] - prediction) ELSE loss1[k]]

\* vectorised_stock_loss(true_return, prediction): alpha omitted
vectorised_stock_loss_omitted_alpha(true_return, prediction) ==
    vectorised_stock_loss(true_return, prediction, vectorised_stock_loss_alpha_default)

\* ------------------------------------------------------- exp_value and fmin
\* exp_value = lambda pred: vectorised_stock_loss(population, pred).mean(),
\* tabulated on the candidate predictions
exp_value(population) ==
    [pred \in Predictions |->
        mean(vectorised_stock_loss_omitted_alpha(population, pred))]

\* fmin(func, x0, disp=False): derivative-free search started at x0.  A
\* candidate replaces the current best only when func is strictly smaller
\* there, so x0 is returned when nothing compares smaller (in particular
\* when func is nan everywhere); otherwise the smallest candidate nearest
\* to x0 is returned.
fmin(func, x0) ==
    LET minima == {c \in DOMAIN func : \A d \in DOMAIN func : ~Less(func[d], func[c])}
    IN  IF x0 \in minima THEN x0
        ELSE CHOOSE c \in minima :
                \A d \in minima :
                    \/ abs(c - x0) < abs(d - x0)
                    \/ abs(c - x0) = abs(d - x0) /\ c >= d

\* --------------------------------------------------------------------- state
VARIABLES
    pc,               \* the notebook cell to run next, or "call"/"returned" for a function call
    x_min, x_max,     \* X.min(), X.max() of the generated signals
    trace,            \* the sampler's draws, each [a, b, sigma]
    burned_trace,
    a_samples, b_samples, sigma_trace, num_samples,
    noise,
    signals, opt_predictions,
    i,                \* index of the signal the loop handles next (1-based)
    true_value,       \* scalar argument of stock_loss
    true_return,      \* array argument of vectorised_stock_loss / outcome population
    prediction, alpha,
    call,             \* the function that was called
    loss,             \* value returned by stock_loss
    vloss,            \* array returned by vectorised_stock_loss
    opt               \* value returned by fmin(exp_value, 0)

pipeline_vars ==
    <<x_min, x_max, trace, burned_trace, a_samples, b_samples, sigma_trace,
      num_samples, noise, signals, opt_predictions, i>>

call_vars == <<true_value, true_return, prediction, alpha, call, loss, vloss, opt>>

vars == <<pc, pipeline_vars, call_vars>>

\* posterior draws (a, b, sigma) the sampler may deliver; sigma > 0
ParamSamples ==
    { [a |-> -1, b |-> 1, sigma |-> 1],
      [a |-> 1,  b |-> 0, sigma |-> 2],
      [a |-> 0,  b |-> 2, sigma |-> 1] }

\* ------------------------------------------------- the notebook, cell by cell
PipelineIdle ==
    /\ x_min = 0 /\ x_max = 0
    /\ trace = <<>> /\ burned_trace = <<>>
    /\ a_samples = <<>> /\ b_samples = <<>> /\ sigma_trace = <<>>
    /\ num_samples = 0
    /\ noise = <<>>
    /\ signals = <<>> /\ opt_predictions = <<>>
    /\ i = 1

CallIdle ==
    /\ true_value = 0 /\ true_return = <<>>
    /\ prediction = 0 /\ alpha = 0
    /\ call = "none"
    /\ loss = 0 /\ vloss = <<>> /\ opt = 0

Init == pc = "data" /\ PipelineIdle /\ CallIdle

\* X = np.random.uniform(-0.06, 0.06, N): only X.min() and X.max() are used later
GenerateData ==
    /\ pc = "data"
    /\ \E lo \in {-6, -3}, step \in {1, 2} :
          /\ x_min' = lo
          /\ x_max' = lo + step * (NumSignals - 1)
    /\ pc' = "sample"
    /\ UNCHANGED <<trace, burned_trace, a_samples, b_samples, sigma_trace,
                   num_samples, noise, signals, opt_predictions, i, call_vars>>

\* trace = pm.sample(100000, step=pm.Metropolis())
Sample ==
    /\ pc = "sample"
    /\ trace' \in SeqsOfLen(ParamSamples, NumDraws)
    /\ pc' = "burn"
    /\ UNCHANGED <<x_min, x_max, burned_trace, a_samples, b_samples, sigma_trace,
                   num_samples, noise, signals, opt_predictions, i, call_vars>>

\* faulty variant: the burn-in prefix kept instead of dropped (trace[:20000])
BurnTrace_keep_prefix ==
    /\ pc = "burn"
    /\ burned_trace' = SubSeq(trace, 1, BurnIn)
    /\ pc' = "extract"
    /\ UNCHANGED <<x_min, x_max, trace, a_samples, b_samples, sigma_trace,
                   num_samples, noise, signals, opt_predictions, i, call_vars>>

\* burned_trace = trace[20000:]
BurnTrace ==
    /\ pc = "burn"
    /\ burned_trace' = SliceFrom(trace, BurnIn)
    /\ pc' = "extract"
    /\ UNCHANGED <<x_min, x_max, trace, a_samples, b_samples, sigma_trace,
                   num_samples, noise, signals, opt_predictions, i, call_vars>>

\* a_samples = burned_trace['a'] ... num_samples = a_samples.shape[0]
ExtractSamples ==
    /\ pc = "extract"
    /\ a_samples' = [k \in 1 .. Len(burned_trace) |-> burned_trace[k].a]
    /\ b_samples' = [k \in 1 .. Len(burned_trace) |-> burned_trace[k].b]
    /\ sigma_trace' = [k \in 1 .. Len(burned_trace) |-> burned_trace[k].sigma]
    /\ num_samples' = Len(burned_trace)
    /\ pc' = "noise"
    /\ UNCHANGED <<x_min, x_max, trace, burned_trace, noise, signals,
                   opt_predictions, i, call_vars>>

\* the arrays pm.Normal.dist(mu=0., sd=sd).random() may return: one draw per
\* element of sd, here one of -sd[k], 0, sd[k]
NormalDraws(sd) ==
    {n \in SeqsOfLen({-2, -1, 0, 1, 2}, Len(sd)) :
        \A k \in 1 .. Len(sd) : n[k] \in {-sd[k], 0, sd[k]}}

\* noise = noise_generator.random()
DrawNoise ==
    /\ pc = "noise"
    /\ noise' \in NormalDraws(sigma_trace)
    /\ pc' = "signals"
    /\ UNCHANGED <<x_min, x_max, trace, burned_trace, a_samples, b_samples,
                   sigma_trace, num_samples, signals, opt_predictions, i, call_vars>>

\* returns_population = lambda signal: a_samples + b_samples*signal + noise
returns_population(signal) ==
    [k \in 1 .. Len(a_samples) |-> a_samples[k] + b_samples[k] * signal + noise[k]]

\* signals = np.linspace(X.min(), X.max(), 50); opt_predictions = np.zeros_like(signals)
MakeSignals ==
    /\ pc = "signals"
    /\ signals' = linspace(x_min, x_max, NumSignals)
    /\ opt_predictions' = zeros_like(linspace(x_min, x_max, NumSignals))
    /\ i' = 1
    /\ pc' = IF NumSignals = 0 THEN "done" ELSE "loop"
    /\ UNCHANGED <<x_min, x_max, trace, burned_trace, a_samples, b_samples,
                   sigma_trace, num_samples, noise, call_vars>>

\* faulty variant: every result stored in the first entry
MinimiseSignal_first_entry ==
    /\ pc = "loop"
    /\ opt_predictions' =
          [opt_predictions EXCEPT ![1] = fmin(exp_value(returns_population(signals[i])), 0)]
    /\ i' = i + 1
    /\ pc' = IF i = Len(signals) THEN "done" ELSE "loop"
    /\ UNCHANGED <<x_min, x_max, trace, burned_trace, a_samples, b_samples,
                   sigma_trace, num_samples, noise, signals, call_vars>>

\* faulty variant: the noise redrawn for every signal
MinimiseSignal_redraw_noise ==
    /\ pc = "loop"
    /\ noise' \in NormalDraws(sigma_trace)
    /\ opt_predictions' =
          [opt_predictions EXCEPT
              ![i] = fmin(exp_value([k \in 1 .. Len(a_samples) |->
                            a_samples[k] + b_samples[k] * signals[i] + noise'[k]]), 0)]
    /\ i' = i + 1
    /\ pc' = IF i = Len(signals) THEN "done" ELSE "loop"
    /\ UNCHANGED <<x_min, x_max, trace, burned_trace, a_samples, b_samples,
                   sigma_trace, num_samples, signals, call_vars>>

\* one iteration of: for i, signal in enumerate(signals):
\*     exp_value = lambda pred: vectorised_stock_loss(returns_population(signal), pred).mean()
\*     opt_predictions[i] = fmin(exp_value, 0, disp=False)
MinimiseSignal ==
    /\ pc = "loop"
    /\ opt_predictions' =
          [opt_predictions EXCEPT ![i] = fmin(exp_value(returns_population(signals[i])), 0)]
    /\ i' = i + 1
    /\ pc' = IF i = Len(signals) THEN "done" ELSE "loop"
    /\ UNCHANGED <<x_min, x_max, trace, burned_trace, a_samples, b_samples,
                   sigma_trace, num_samples, noise, signals, call_vars>>

Next ==
    \/ GenerateData
    \/ Sample
    \/ BurnTrace
    \/ ExtractSamples
    \/ DrawNoise
    \/ MakeSignals
    \/ MinimiseSignal

Spec == Init /\ [][Next]_vars

\* ------------------------------------------- the functions, called on their own
\* the arguments are drawn from bounded sets; one call is made and returns
InitFn ==
    /\ pc = "call"
    /\ PipelineIdle
    /\ true_value \in TrueValues
    /\ true_return \in SeqsUpTo(TrueValues, MaxLen)
    /\ prediction \in Predictions
    /\ alpha \in Alphas
    /\ call = "none"
    /\ loss = 0 /\ vloss = <<>> /\ opt = 0

\* stock_loss(true_value, prediction, alpha)
CallStockLoss ==
    /\ pc = "call"
    /\ loss' = stock_loss(true_value, prediction, alpha)
    /\ call' = "stock_loss"
    /\ pc' = "returned"
    /\ UNCHANGED <<pipeline_vars, true_value, true_return, prediction, alpha, vloss, opt>>

\* stock_loss(true_value, prediction)
CallStockLossOmittedAlpha ==
    /\ pc = "call"
    /\ loss' = stock_loss_omitted_alpha(true_value, prediction)
    /\ call' = "stock_loss_omitted_alpha"
    /\ pc' = "returned"
    /\ UNCHANGED <<pipeline_vars, true_value, true_return, prediction, alpha, vloss, opt>>

\* vectorised_stock_loss(true_return, prediction, alpha)
CallVectorised ==
    /\ pc = "call"
    /\ vloss' = vectorised_stock_loss(true_return, prediction, alpha)
    /\ call' = "vectorised_stock_loss"
    /\ pc' = "returned"
    /\ UNCHANGED <<pipeline_vars, true_value, true_return, prediction, alpha, loss, opt>>

\* vectorised_stock_loss(true_return, prediction)
CallVectorisedOmittedAlpha ==
    /\ pc = "call"
    /\ vloss' = vectorised_stock_loss_omitted_alpha(true_return, prediction)
    /\ call' = "vectorised_stock_loss_omitted_alpha"
    /\ pc' = "returned"
    /\ UNCHANGED <<pipeline_vars, true_value, true_return, prediction, alpha, loss, opt>>

\* the loop body on the outcome population true_return:
\*     fmin(lambda pred: vectorised_stock_loss(true_return, pred).mean(), 0, disp=False)
\* no statement on this path raises; the value fmin returns is stored
CallMinimise ==
    /\ pc = "call"
    /\ opt' = fmin(exp_value(true_return), 0)
    /\ call' = "fmin"
    /\ pc' = "returned"
    /\ UNCHANGED <<pipeline_vars, true_value, true_return, prediction, alpha, loss, vloss>>

NextFn ==
    \/ CallStockLoss
    \/ CallStockLossOmittedAlpha
    \/ CallVectorised
    \/ CallVectorisedOmittedAlpha
    \/ CallMinimise

SpecFn == InitFn /\ [][NextFn]_vars

\* -------------------------------------------------------------------- claims

\* C1: whenever stock_loss(true_value, prediction, alpha) has returned, its
\* value is the piecewise reference: alpha*prediction^2 - sign(true_value)*
\* prediction + |true_value| when the two arguments have strictly opposite
\* signs, |true_value - prediction| otherwise; a zero argument always gives
\* |true_value - prediction|.
C1_StockLossPiecewise ==
    call = "stock_loss" =>
        LET t == true_value
            p == prediction
            opposite == (t > 0 /\ p < 0) \/ (t < 0 /\ p > 0)
            distance == IF t >= p THEN t - p ELSE p - t
        IN  /\ opposite =>
                loss = alpha * p * p
                         + SCALE * ((IF t > 0 THEN -p ELSE p) + (IF t > 0 THEN t ELSE -t))
            /\ ~opposite => loss = SCALE * distance
            /\ (t = 0 \/ p = 0) => loss = SCALE * distance

C1_Witness ==
    /\ call = "stock_loss"
    /\ true_value = -1 /\ prediction = 2 /\ alpha = 100
    /\ loss = 400 + SCALE * 3

C3_LossNonNegative ==
    /\ (call = "stock_loss" /\ alpha > 0) => loss >= 0
    /\ (call = "vectorised_stock_loss" /\ alpha > 0) =>
          \A k \in 1 .. Len(vloss) : vloss[k] >= 0

C3_Witness ==
    /\ call = "stock_loss"
    /\ alpha = 1
    /\ true_value = 1 /\ prediction = -Pt05
    /\ loss > 0

\* C4 (as claimed): some true_value and prediction of strictly opposite sign
\* and some alpha > 0 give a negative quadratic branch.
C4_NegativeQuadraticExists ==
    \E t \in TrueValues, p \in Predictions, a \in Alphas :
        /\ t * p < 0
        /\ a > 0
        /\ stock_loss(t, p, a) < 0

\* C4 (amended): for alpha > 0 and arguments of strictly opposite sign the
\* quadratic branch returned by stock_loss is alpha*prediction^2 +
\* |prediction| + |true_value|, which is strictly positive.
C4_QuadraticBranchPositive ==
    (call = "stock_loss" /\ alpha > 0 /\ true_value * prediction < 0) =>
        /\ loss = alpha * prediction * prediction
                    + SCALE * (abs(prediction) + abs(true_value))
        /\ loss > 0

C4_Witness ==
    /\ call = "stock_loss"
    /\ alpha = 100
    /\ true_value = Pt05 /\ prediction = -1
    /\ loss = 100 + SCALE * (1 + Pt05)

\* C5: when the outcome population is empty, or the alpha the loop body uses
\* is not positive, the minimisation ends in a precondition error: fmin does
\* not return and no prediction is stored.
C5_PreconditionFailFast ==
    (/\ call = "fmin"
     /\ \/ true_return = <<>>
        \/ vectorised_stock_loss_alpha_default <= 0)
        => pc = "raised"

\* C6: for an outcome population of as many +0.05 as -0.05 the prediction
\* returned by fmin(exp_value, 0) has absolute value strictly below 0.05.
C6_HalfHalfOptimum ==
    LET idx == 1 .. Len(true_return)
        up == {k \in idx : true_return[k] = Pt05}
        down == {k \in idx : true_return[k] = -Pt05}
    IN  (/\ call = "fmin"
         /\ Len(true_return) > 0
         /\ up \cup down = idx
         /\ Cardinality(up) = Cardinality(down))
            => abs(opt) < Pt05

C6_Witness ==
    /\ call = "fmin"
    /\ true_return = <<Pt05, -Pt05>>
    /\ opt = 0

\* C10: with alpha omitted stock_loss uses alpha = 100 and
\* vectorised_stock_loss uses alpha = 500; the two then agree where
\* true_return*prediction >= 0 and differ by exactly 400*prediction^2 where
\* true_return*prediction < 0; the loop body minimises the mean loss taken
\* with alpha = 500.
C10_DefaultAlphas ==
    /\ call = "stock_loss_omitted_alpha" =>
          loss = stock_loss(true_value, prediction, 100)
    /\ call = "vectorised_stock_loss_omitted_alpha" =>
          /\ vloss = vectorised_stock_loss(true_return, prediction, 500)
          /\ \A k \in 1 .. Len(true_return) :
                vloss[k] - stock_loss(true_return[k], prediction, 100) =
                    IF true_return[k] * prediction < 0
                    THEN 400 * prediction * prediction
                    ELSE 0
    /\ call = "fmin" =>
          opt = fmin([pred \in Predictions |->
                        mean(vectorised_stock_loss(true_return, pred, 500))], 0)

C10_Witness ==
    /\ call = "vectorised_stock_loss_omitted_alpha"
    /\ true_return = <<Pt05, -1>>
    /\ prediction = 2
    /\ vloss[1] = SCALE * (Pt05 - 2)
    /\ vloss[2] = 2000 + SCALE * 3

\* C7: when the loop has finished, opt_predictions is as long as signals and
\* its j-th entry is the minimiser for returns_population(signals[j]); every
\* iteration writes the entry of its own signal only and moves to the next
\* index, so each entry is written exactly once.
C7_Final ==
    pc = "done" =>
        /\ Len(opt_predictions) = Len(signals)
        /\ i = Len(signals) + 1
        /\ \A j \in 1 .. Len(signals) :
              opt_predictions[j] = fmin(exp_value(returns_population(signals[j])), 0)

C7_Step ==
    pc = "loop" =>
        /\ i \in 1 .. Len(signals)
        /\ i' = i + 1
        /\ signals' = signals
        /\ \A j \in 1 .. Len(signals) : j # i => opt_predictions'[j] = opt_predictions[j]
        /\ opt_predictions'[i] = fmin(exp_value(returns_population(signals[i])), 0)

C7_OneEntryPerSignal == [] C7_Final /\ [][C7_Step]_vars

C7_Witness ==
    /\ pc = "done"
    /\ opt_predictions[1] < 0
    /\ opt_predictions[Len(signals)] > 0

\* C8: the noise has one value per kept parameter sample and no iteration of
\* the loop changes it (nor the parameter samples), so the population of the
\* current signal is a_samples[k] + b_samples[k]*signal + noise[k] and
\* differs from the population of any other signal by b_samples[k]*(s1 - s2).
C8_Step ==
    pc = "loop" =>
        /\ noise' = noise
        /\ a_samples' = a_samples /\ b_samples' = b_samples
        /\ Len(noise) = Len(burned_trace)
        /\ Len(returns_population(signals[i])) = Len(burned_trace)
        /\ \A k \in 1 .. Len(burned_trace) :
              /\ returns_population(signals[i])[k]
                    = burned_trace[k].a + burned_trace[k].b * signals[i] + noise'[k]
              /\ \A j \in 1 .. Len(signals) :
                    returns_population(signals[i])[k] - returns_population(signals[j])[k]
                        = b_samples[k] * (signals[i] - signals[j])

C8_NoiseDrawnOnce == [][C8_Step]_vars

C8_Witness ==
    /\ pc = "done"
    /\ \E k \in 1 .. Len(noise) : noise[k] # 0 /\ b_samples[k] # 0
    /\ signals[1] # signals[2]

====
